---- MODULE Spec2Model ----
(***************************************************************************)
(* A model of BWCurve (src/src/index.ts): the curve document, its point    *)
(* pipeline and the encoder toBuffer.                                      *)
(*                                                                         *)
(* JavaScript values are modelled as follows.                              *)
(*  - A number is a record [t, n, d]: t = "fin" is the rational n/d in     *)
(*    lowest terms with d > 0; t = "nan", "pinf", "ninf" are NaN, Infinity *)
(*    and -Infinity.  Arithmetic follows IEEE-754 for the special values   *)
(*    (0 * Infinity = NaN, x / 0 = +-Infinity, 0 / 0 = NaN, ...).  Finite  *)
(*    arithmetic is exact; -0 is identified with 0.                        *)
(*  - A string is the sequence of its UTF-16 code units.                   *)
(*  - Arrays and objects live in a heap: a document holds a reference to   *)
(*    its points array, the array holds references to point objects, so    *)
(*    two documents can share an array or a point exactly when the code    *)
(*    makes them share it.                                                 *)
(***************************************************************************)
EXTENDS Integers, Sequences, FiniteSets, TLC

VARIABLES
    docPoints,  \* document -> reference of its points array (this.points)
    heapArr,    \* array reference -> sequence of point-object references
    heapObj,    \* point-object reference -> [x, y, slope]
    docMeta,    \* document -> reference of its metadata object (this.metadata)
    heapMeta,   \* metadata reference -> [name, creator, description, category, tags]
    hist        \* the calls made so far, most recent last

vars == <<docPoints, heapArr, heapObj, docMeta, heapMeta, hist>>

-----------------------------------------------------------------------------
(* Numbers *)

Abs(i) == IF i < 0 THEN -i ELSE i

Sign(i) == IF i < 0 THEN -1 ELSE IF i > 0 THEN 1 ELSE 0

RECURSIVE GCD(_, _)
GCD(a, b) == IF b = 0 THEN a ELSE GCD(b, a % b)

NaN == [t |-> "nan", n |-> 0, d |-> 1]

PInf == [t |-> "pinf", n |-> 0, d |-> 1]

NInf == [t |-> "ninf", n |-> 0, d |-> 1]

\* The rational n/d (d # 0) in lowest terms.
Rat(n, d) ==
    LET common == GCD(Abs(n), Abs(d))
        sgn == IF d < 0 THEN -1 ELSE 1
    IN  [t |-> "fin", n |-> (sgn * n) \div common, d |-> (sgn * d) \div common]

Num(i) == Rat(i, 1)

IsNaN(a) == a.t = "nan"

IsFinite(a) == a.t = "fin"

IsInf(a) == a.t \in {"pinf", "ninf"}

\* -1, 0 or 1; NaN has no sign and is never asked for one.
SignOf(a) == IF a.t = "pinf" THEN 1 ELSE IF a.t = "ninf" THEN -1 ELSE Sign(a.n)

InfOfSign(s) == IF s < 0 THEN NInf ELSE PInf

Neg(a) ==
    CASE a.t = "nan" -> NaN
      [] a.t = "pinf" -> NInf
      [] a.t = "ninf" -> PInf
      [] OTHER -> Rat(-a.n, a.d)

\* a + b
Add(a, b) ==
    IF IsNaN(a) \/ IsNaN(b) THEN NaN
    ELSE IF IsInf(a) /\ IsInf(b) THEN (IF a = b THEN a ELSE NaN)
    ELSE IF IsInf(a) THEN a
    ELSE IF IsInf(b) THEN b
    ELSE Rat(a.n * b.d + b.n * a.d, a.d * b.d)

\* a - b
Sub(a, b) == Add(a, Neg(b))

\* a * b
Mul(a, b) ==
    IF IsNaN(a) \/ IsNaN(b) THEN NaN
    ELSE IF IsInf(a) \/ IsInf(b)
         THEN (IF SignOf(a) = 0 \/ SignOf(b) = 0 THEN NaN
               ELSE InfOfSign(SignOf(a) * SignOf(b)))
    ELSE Rat(a.n * b.n, a.d * b.d)

\* a / b
Div(a, b) ==
    IF IsNaN(a) \/ IsNaN(b) THEN NaN
    ELSE IF IsInf(a) /\ IsInf(b) THEN NaN
    ELSE IF IsInf(a) THEN InfOfSign(SignOf(a) * (IF SignOf(b) < 0 THEN -1 ELSE 1))
    ELSE IF IsInf(b) THEN Num(0)
    ELSE IF b.n = 0 THEN (IF a.n = 0 THEN NaN ELSE InfOfSign(SignOf(a)))
    ELSE Rat(a.n * b.d, a.d * b.n)

\* a < b; false when either is NaN
Lt(a, b) ==
    IF IsNaN(a) \/ IsNaN(b) THEN FALSE
    ELSE IF a = b THEN FALSE
    ELSE IF a.t = "ninf" \/ b.t = "pinf" THEN TRUE
    ELSE IF a.t = "pinf" \/ b.t = "ninf" THEN FALSE
    ELSE a.n * b.d < b.n * a.d

\* a <= b; false when either is NaN
Le(a, b) == ~IsNaN(a) /\ ~IsNaN(b) /\ ~Lt(b, a)

\* Math.max(a, b)
MathMax2(a, b) ==
    IF IsNaN(a) \/ IsNaN(b) THEN NaN ELSE IF Lt(a, b) THEN b ELSE a

\* Math.min(a, b)
MathMin2(a, b) ==
    IF IsNaN(a) \/ IsNaN(b) THEN NaN ELSE IF Lt(b, a) THEN b ELSE a

\* Math.max(0, ...s): a scan that starts from 0 instead of -Infinity.
RECURSIVE MathMaxOrZero(_)
MathMaxOrZero(s) ==
    IF s = <<>> THEN Num(0) ELSE MathMax2(Head(s), MathMaxOrZero(Tail(s)))

\* Math.max(...s): -Infinity for no arguments
RECURSIVE MathMax(_)
MathMax(s) == IF s = <<>> THEN NInf ELSE MathMax2(Head(s), MathMax(Tail(s)))

\* Math.min(...s): Infinity for no arguments
RECURSIVE MathMin(_)
MathMin(s) == IF s = <<>> THEN PInf ELSE MathMin2(Head(s), MathMin(Tail(s)))

-----------------------------------------------------------------------------
(* Strings: sequences of UTF-16 code units *)

\* 'default'
StrDefault == <<100, 101, 102, 97, 117, 108, 116>>

\* The BWCurveCategories: 'Envelope', 'Lookup', 'Periodic', 'Sequence'
CatEnvelope == <<69, 110, 118, 101, 108, 111, 112, 101>>

CatLookup == <<76, 111, 111, 107, 117, 112>>

CatPeriodic == <<80, 101, 114, 105, 111, 100, 105, 99>>

CatSequence == <<83, 101, 113, 117, 101, 110, 99, 101>>

BWCurveCategories == {CatEnvelope, CatLookup, CatPeriodic, CatSequence}

-----------------------------------------------------------------------------
(* The heap *)

\* The documents the caller holds.
Docs == {"a", "b"}

Other(d) == IF d = "a" THEN "b" ELSE "a"

\* A BWCurvePoint with integer coordinates.
P(x, y, slope) == [x |-> Num(x), y |-> Num(y), slope |-> Num(slope)]

\* The heap a call works on: dp = this.points of each document, ha = the
\* arrays, ho = the point objects, dm = this.metadata of each document,
\* hm = the metadata objects.
Heap == [dp |-> docPoints, ha |-> heapArr, ho |-> heapObj,
         dm |-> docMeta, hm |-> heapMeta]

\* The k smallest references not in `used`, in increasing order.
RECURSIVE FreshRefs(_, _)
FreshRefs(used, k) ==
    IF k = 0 THEN <<>>
    ELSE LET ref == CHOOSE i \in 1..(Cardinality(used) + 1) :
                        i \notin used /\ \A j \in 1..(i - 1) : j \in used
         IN  <<ref>> \o FreshRefs(used \cup {ref}, k - 1)

Range(s) == {s[i] : i \in DOMAIN s}

\* The point objects of document d, in order (references).
Refs(h, d) == h.ha[h.dp[d]]

\* The points of document d, in order (values).
Points(h, d) == [i \in 1..Len(Refs(h, d)) |-> h.ho[Refs(h, d)[i]]]

\* What a caller can read of a document: its points and its metadata.
ViewOf(h, d) == [points |-> Points(h, d), metadata |-> h.hm[h.dm[d]]]

View(h) == [d \in Docs |-> ViewOf(h, d)]

\* A new array holding new point objects with the values `vals`, assigned
\* to this.points of document d (this.points = <a freshly built array>).
AssignNewPoints(h, d, vals) ==
    LET arr == FreshRefs(DOMAIN h.ha, 1)[1]
        objs == FreshRefs(DOMAIN h.ho, Len(vals))
    IN  [h EXCEPT !.dp = [h.dp EXCEPT ![d] = arr],
                  !.ha = (arr :> objs) @@ h.ha,
                  !.ho = [o \in Range(objs) |->
                            vals[CHOOSE i \in 1..Len(objs) : objs[i] = o]] @@ h.ho]

\* Array.prototype.push of new point objects with the values `vals` onto
\* the array this.points of document d refers to (in place).
PushNewPoints(h, d, vals) ==
    LET objs == FreshRefs(DOMAIN h.ho, Len(vals))
    IN  [h EXCEPT !.ha = [h.ha EXCEPT ![h.dp[d]] = @ \o objs],
                  !.ho = [o \in Range(objs) |->
                            vals[CHOOSE i \in 1..Len(objs) : objs[i] = o]] @@ h.ho]

\* What the garbage collector leaves: arrays, points and metadata objects
\* some document still reaches.
Collect(h) ==
    LET liveA == {h.dp[c] : c \in Docs}
        liveO == UNION {Range(h.ha[arr]) : arr \in liveA}
        liveM == {h.dm[c] : c \in Docs}
    IN  [h EXCEPT !.ha = [arr \in liveA |-> h.ha[arr]],
                  !.ho = [o \in liveO |-> h.ho[o]],
                  !.hm = [meta \in liveM |-> h.hm[meta]]]

\* The result of a call: kind is "this" (the document itself, for chaining),
\* "return" (a value: the bytes of a buffer, or the document doc) or the
\* name of the error thrown.
RetThis == [kind |-> "this", bytes |-> <<>>, doc |-> <<>>]

\* The state after a call `op` on document d with arguments `args` that
\* left the heap h2 and returned `ret`.
Finish(op, d, args, h2, ret) ==
    LET kept == Collect(h2)
    IN  /\ docPoints' = kept.dp
        /\ heapArr' = kept.ha
        /\ heapObj' = kept.ho
        /\ docMeta' = kept.dm
        /\ heapMeta' = kept.hm
        /\ hist' = Append(hist, [op |-> op, doc |-> d, args |-> args,
                                 pre |-> View(Heap), ret |-> ret])

\* The heap after  new BWCurve()  for every document (constructor).
DefaultMetadata ==
    [name |-> StrDefault, creator |-> StrDefault, category |-> CatEnvelope,
     description |-> StrDefault, tags |-> <<StrDefault>>]

Constructed ==
    [dp |-> [d \in Docs |-> IF d = "a" THEN 1 ELSE 2],
     ha |-> (1 :> <<>>) @@ (2 :> <<>>),
     ho |-> <<>>,
     dm |-> [d \in Docs |-> IF d = "a" THEN 1 ELSE 2],
     hm |-> (1 :> DefaultMetadata) @@ (2 :> DefaultMetadata)]

\* setPoints(points, (p) => p): the converter's x, y and slope go into new
\* point objects of a new array.
setPoints(h, d, vals) == AssignNewPoints(h, d, vals)

-----------------------------------------------------------------------------
(* The point pipeline *)

Xs(pts) == [i \in 1..Len(pts) |-> pts[i].x]

Ys(pts) == [i \in 1..Len(pts) |-> pts[i].y]

getMaxX(h, d) == MathMax(Xs(Points(h, d)))

getMaxY(h, d) == MathMax(Ys(Points(h, d)))

getMinX(h, d) == MathMin(Xs(Points(h, d)))

getMinY(h, d) == MathMin(Ys(Points(h, d)))

\* this.points = this.points.map((p) => ({...p, <changes>})): a new array
\* of new point objects, whose values are `vals`, one for every point.
mapSpread(h, d, vals) == AssignNewPoints(h, d, vals)

clampPoint(p) ==
    [p EXCEPT !.y = MathMax2(Num(0), MathMin2(Num(1), p.y)),
              !.slope = MathMax2(Num(-1), MathMin2(Num(1), p.slope))]

clamp(h, d) ==
    mapSpread(h, d, [i \in 1..Len(Refs(h, d)) |-> clampPoint(Points(h, d)[i])])

scaleY(h, d, factor) ==
    mapSpread(h, d, [i \in 1..Len(Refs(h, d)) |->
                        [Points(h, d)[i] EXCEPT !.y = Mul(@, factor)]])

scaleX(h, d, factor) ==
    mapSpread(h, d, [i \in 1..Len(Refs(h, d)) |->
                        [Points(h, d)[i] EXCEPT !.x = Mul(@, factor)]])

shiftX(h, d, offset) ==
    mapSpread(h, d, [i \in 1..Len(Refs(h, d)) |->
                        [Points(h, d)[i] EXCEPT !.x = Add(@, offset)]])

fitInXRange(h, d, min, max) ==
    LET minX == getMinX(h, d)
        h1 == mapSpread(h, d, [i \in 1..Len(Refs(h, d)) |->
                                  [Points(h, d)[i] EXCEPT !.x = Sub(@, minX)]])
        maxX == getMaxX(h1, d)
        fitFactor == Div(Sub(max, min), maxX)
    IN  scaleX(h1, d, fitFactor)

fitInYRange(h, d, min, max) ==
    LET minY == getMinY(h, d)
        h1 == mapSpread(h, d, [i \in 1..Len(Refs(h, d)) |->
                                  [Points(h, d)[i] EXCEPT !.y = Sub(@, minY)]])
        maxY == getMaxY(h1, d)
        fitFactor == Div(Sub(max, min), maxY)
    IN  scaleY(h1, d, fitFactor)

\* pushPoints(points) for an array of point objects the caller built.
pushPoints(h, d, vals) == PushNewPoints(h, d, vals)

\* spliceCurve that appends the points of curve without offsetting them.
spliceCurveNoOffset(h, d, c) ==
    IF Len(Refs(h, c)) = 0 THEN h
    ELSE IF Len(Refs(h, d)) = 0
         THEN [h EXCEPT !.dp = [h.dp EXCEPT ![d] = h.dp[c]]]
    ELSE pushPoints(h, d, Points(h, c))

\* this.spliceCurve(curve), this = document d, curve = document c.
spliceCurve(h, d, c) ==
    IF Len(Refs(h, c)) = 0 THEN h
    ELSE IF Len(Refs(h, d)) = 0
         THEN [h EXCEPT !.dp = [h.dp EXCEPT ![d] = h.dp[c]]]
    ELSE LET maxX == getMaxX(h, d)
             pointsWithOffset ==
                 [i \in 1..Len(Refs(h, c)) |->
                     [Points(h, c)[i] EXCEPT !.x = Add(@, maxX)]]
         IN  pushPoints(h, d, pointsWithOffset)

\* insertPointAtX that inserts before the first point whose x is greater
\* than or equal to x.
insertPointAtXBeforeEqual(h, d, p) ==
    LET current == Points(h, d)
        found == {i \in 1..Len(current) : Le(p.x, current[i].x)}
    IN  IF found = {} THEN pushPoints(h, d, <<p>>)
        ELSE LET place == CHOOSE i \in found : \A j \in found : i <= j
                 obj == FreshRefs(DOMAIN h.ho, 1)[1]
             IN  [h EXCEPT !.ha = [h.ha EXCEPT ![h.dp[d]] =
                                      SubSeq(@, 1, place - 1) \o <<obj>>
                                          \o SubSeq(@, place, Len(@))],
                           !.ho = (obj :> p) @@ h.ho]

\* insertPointAtX({ x, y, slope }): findIndex gives the first point with
\* p.x > x (`place` is one more than the source's index, the lists here
\* start at 1); none found (-1) pushes a new object { x, y, slope }, else a new
\* object is spliced in at that index of the array, in place.
insertPointAtX(h, d, p) ==
    LET current == Points(h, d)
        found == {i \in 1..Len(current) : Lt(p.x, current[i].x)}
    IN  IF found = {} THEN pushPoints(h, d, <<p>>)
        ELSE LET place == CHOOSE i \in found : \A j \in found : i <= j
                 obj == FreshRefs(DOMAIN h.ho, 1)[1]
             IN  [h EXCEPT !.ha = [h.ha EXCEPT ![h.dp[d]] =
                                      SubSeq(@, 1, place - 1) \o <<obj>>
                                          \o SubSeq(@, place, Len(@))],
                           !.ho = (obj :> p) @@ h.ho]

ReverseSeq(s) == [i \in 1..Len(s) |-> s[Len(s) + 1 - i]]

\* reverse with the operands of the reflection swapped: x: p.x - maxX.
reverseSwapped(h, d) ==
    LET maxX == getMaxX(h, d)
        h1 == [h EXCEPT !.ha = [h.ha EXCEPT ![h.dp[d]] = ReverseSeq(@)]]
    IN  mapSpread(h1, d, [i \in 1..Len(Refs(h1, d)) |->
                             [Points(h1, d)[i] EXCEPT !.x = Sub(@, maxX)]])

\* this.points.reverse() reverses the array in place; the map then builds
\* the new array of new points.
reverse(h, d) ==
    LET maxX == getMaxX(h, d)
        h1 == [h EXCEPT !.ha = [h.ha EXCEPT ![h.dp[d]] = ReverseSeq(@)]]
    IN  mapSpread(h1, d, [i \in 1..Len(Refs(h1, d)) |->
                             [Points(h1, d)[i] EXCEPT !.x = Sub(maxX, @)]])

\* The loop of invert from index i on: this.points[i].y = maxY - this.points[i].y
RECURSIVE invertFrom(_, _, _, _)
invertFrom(ho, refs, top, i) ==
    IF i > Len(refs) THEN ho
    ELSE invertFrom([ho EXCEPT ![refs[i]].y = Sub(top, @)], refs, top, i + 1)

\* Writes y of the point objects of the array, in place.
invert(h, d) ==
    [h EXCEPT !.ho = invertFrom(h.ho, Refs(h, d), getMaxY(h, d), 1)]

\* removePoint that returns at once for an index outside 0..length-1.
removePointGuarded(h, d, index) ==
    IF index < 0 \/ index >= Len(Refs(h, d)) THEN h
    ELSE [h EXCEPT !.ha = [h.ha EXCEPT ![h.dp[d]] =
             [i \in 1..(Len(Refs(h, d)) - 1) |->
                 IF i <= index THEN Refs(h, d)[i] ELSE Refs(h, d)[i + 1]]]]

\* Array.prototype.splice(index, 1): a negative index counts from the end,
\* the start is clamped into 0..length, and one element is removed if there
\* is one at the start.
removePoint(h, d, index) ==
    LET old == Refs(h, d)
        len == Len(old)
        start == IF index < 0
                 THEN (IF len + index < 0 THEN 0 ELSE len + index)
                 ELSE (IF index > len THEN len ELSE index)
    IN  [h EXCEPT !.ha = [h.ha EXCEPT ![h.dp[d]] =
            [i \in 1..(IF start < len THEN len - 1 ELSE len) |->
                IF i <= start THEN old[i] ELSE old[i + 1]]]]

\* get(index): this.points[index], undefined outside 0..length-1.
get(h, d, index) ==
    IF index >= 0 /\ index < Len(Refs(h, d))
    THEN <<Points(h, d)[index + 1]>>
    ELSE <<>>

pointCount(h, d) == Len(Refs(h, d))

\* The r-th smallest element (r >= 1) of a set of references.
Nth(S, r) == CHOOSE o \in S : Cardinality({q \in S : q < o}) = r - 1

\* How many elements of the set S are at most o.
RankIn(S, o) == Cardinality({q \in S : q <= o})

\* clone that copies the references: curve.metadata = this.metadata and
\* curve.points = this.points.
cloneSharing(h, d, c) ==
    [h EXCEPT !.dm = [h.dm EXCEPT ![c] = h.dm[d]],
              !.dp = [h.dp EXCEPT ![c] = h.dp[d]]]

\* structuredClone of the metadata and of the points into a new document,
\* which the caller's variable c then refers to.  The copy has a new point
\* object for every point object of the source, and a new array.
clone(h, d, c) ==
    LET meta == FreshRefs(DOMAIN h.hm, 1)[1]
        arr == FreshRefs(DOMAIN h.ha, 1)[1]
        old == Range(Refs(h, d))
        objs == FreshRefs(DOMAIN h.ho, Cardinality(old))
    IN  [h EXCEPT !.dm = [h.dm EXCEPT ![c] = meta],
                  !.hm = (meta :> h.hm[h.dm[d]]) @@ h.hm,
                  !.dp = [h.dp EXCEPT ![c] = arr],
                  !.ha = (arr :> [i \in 1..Len(Refs(h, d)) |->
                                     objs[RankIn(old, Refs(h, d)[i])]]) @@ h.ha,
                  !.ho = [o \in Range(objs) |->
                             h.ho[Nth(old, CHOOSE r \in 1..Len(objs) : objs[r] = o)]]
                         @@ h.ho]

\* (a, b) => a.x - b.x  is negative: a sorts before b.
SortsBefore(p, q) ==
    LET diff == Sub(p.x, q.x) IN ~IsNaN(diff) /\ Lt(diff, Num(0))

\* The permutations of 1..n.
Orders(n) == {f \in [1..n -> 1..n] : \A i, j \in 1..n : i # j => f[i] # f[j]}

\* The orders this.points.sort((a, b) => a.x - b.x) can leave the array
\* `list` in.  The sort is stable; when some x is NaN the comparator is not a
\* consistent order and the result is whatever order the engine produces.
sortOrders(h, list) ==
    LET len == Len(list)
        perms == {[i \in 1..len |-> list[f[i]]] : f \in Orders(len)}
    IN  IF \E i \in 1..len : IsNaN(h.ho[list[i]].x)
        THEN perms
        ELSE {[i \in 1..len |-> list[f[i]]] : f \in
                 {g \in Orders(len) : \A i, j \in 1..len :
                     i < j => /\ ~SortsBefore(h.ho[list[g[j]]], h.ho[list[g[i]]])
                              /\ (~SortsBefore(h.ho[list[g[i]]], h.ho[list[g[j]]])
                                     => g[i] < g[j])}}

\* The heap after sort() left the array of document d in the order `order`.
sort(h, d, order) == [h EXCEPT !.ha = [h.ha EXCEPT ![h.dp[d]] = order]]

\* this.points = this.points.map(callback) for a callback that writes
\* `slope` into the point it is given and returns that same point.
mapWriting(h, d, slope) ==
    LET objs == Refs(h, d)
        arr == FreshRefs(DOMAIN h.ha, 1)[1]
    IN  [h EXCEPT !.dp = [h.dp EXCEPT ![d] = arr],
                  !.ha = (arr :> objs) @@ h.ha,
                  !.ho = [o \in DOMAIN h.ho |->
                             IF o \in Range(objs) THEN [h.ho[o] EXCEPT !.slope = slope]
                             ELSE h.ho[o]]]

\* What Array.prototype.map and Array.prototype.filter do with the array
\* `elems` of this.points and a callback that starts with
\*     if (index + 1 < array.length) array[index + 1].y = point.y
\* from element i on: the callback is handed the point objects themselves
\* and the array itself, one after the other.  ho is the point objects as
\* the calls so far left them, seen the value of the point each call was
\* given.
RECURSIVE visitForward(_, _, _, _)
visitForward(ho, elems, i, seen) ==
    IF i > Len(elems) THEN [ho |-> ho, seen |-> seen]
    ELSE LET given == ho[elems[i]]
             written == IF i < Len(elems)
                        THEN [ho EXCEPT ![elems[i + 1]] = [@ EXCEPT !.y = given.y]]
                        ELSE ho
         IN  visitForward(written, elems, i + 1, Append(seen, given))

\* this.points = this.points.map(callback) for the callback above that
\* ends with  return { ...point }.
mapForward(h, d) ==
    LET pass == visitForward(h.ho, Refs(h, d), 1, <<>>)
    IN  AssignNewPoints([h EXCEPT !.ho = pass.ho], d, pass.seen)

\* this.points = this.points.filter(callback) for the callback above that
\* ends with  return point.y >= 0 : a new array of the point objects kept.
filterForward(h, d) ==
    LET objs == Refs(h, d)
        pass == visitForward(h.ho, objs, 1, <<>>)
        kept == SelectSeq([i \in 1..Len(objs) |-> i],
                          LAMBDA i : Le(Num(0), pass.seen[i].y))
        arr == FreshRefs(DOMAIN h.ha, 1)[1]
    IN  [h EXCEPT !.dp = [h.dp EXCEPT ![d] = arr],
                  !.ha = (arr :> [k \in 1..Len(kept) |-> objs[kept[k]]]) @@ h.ha,
                  !.ho = pass.ho]

\* double(): scaleX(0.5 * maxX), then spliceCurve(this).
double(h, d) ==
    IF Len(Refs(h, d)) <= 1 THEN h
    ELSE LET maxX == getMaxX(h, d)
             h1 == scaleX(h, d, Mul(Rat(1, 2), maxX))
         IN  spliceCurve(h1, d, d)

\* The heap with the local variable `clone` of mirror() next to the
\* documents, and the heap once the call has returned and the variable is
\* gone.
WithLocal(h, d) ==
    [h EXCEPT !.dp = ("clone" :> h.dp[d]) @@ h.dp,
              !.dm = ("clone" :> h.dm[d]) @@ h.dm]

DropLocal(h) ==
    [h EXCEPT !.dp = [c \in Docs |-> h.dp[c]],
              !.dm = [c \in Docs |-> h.dm[c]]]

\* mirror() that splices the clone without reversing it.
mirrorNoReverse(h, d) ==
    IF Len(Refs(h, d)) <= 1 THEN h
    ELSE LET h1 == scaleX(h, d, Rat(1, 2))
             cloned == clone(WithLocal(h1, d), d, "clone")
         IN  DropLocal(spliceCurve(cloned, d, "clone"))

\* mirror(): scaleX(0.5), clone = this.clone().reverse(), then
\* spliceCurve(clone).
mirror(h, d) ==
    IF Len(Refs(h, d)) <= 1 THEN h
    ELSE LET h1 == scaleX(h, d, Rat(1, 2))
             cloned == clone(WithLocal(h1, d), d, "clone")
             reversed == reverse(cloned, "clone")
         IN  DropLocal(spliceCurve(reversed, d, "clone"))

-----------------------------------------------------------------------------
(* Metadata *)

Metadata(h, d) == h.hm[h.dm[d]]

\* Writes one field of the metadata object of document d, in place.
setMetadata(h, d, field, value) ==
    [h EXCEPT !.hm = [h.hm EXCEPT ![h.dm[d]] = [@ EXCEPT ![field] = value]]]

setName(h, d, name) == setMetadata(h, d, "name", name)

setCreator(h, d, creator) == setMetadata(h, d, "creator", creator)

setDescription(h, d, description) == setMetadata(h, d, "description", description)

setCategory(h, d, category) == setMetadata(h, d, "category", category)

\* setTags(tags) for an array the caller built for this call.
setTags(h, d, tags) == setMetadata(h, d, "tags", tags)

\* this.metadata.tags.push(tag)
addTag(h, d, tag) == setMetadata(h, d, "tags", Append(Metadata(h, d).tags, tag))

\* this.metadata.tags.filter((t) => t !== tag)
removeTag(h, d, tag) ==
    setMetadata(h, d, "tags", SelectSeq(Metadata(h, d).tags, LAMBDA t : t # tag))

-----------------------------------------------------------------------------
(* The encoder *)

\* A hexadecimal string is the sequence of its digits' values (0..15),
\* white space removed.  What a function that threw gives instead of bytes:
Thrown == <<-1>>

\* The sequences of ss[lo..hi], one after the other.
RECURSIVE FlattenRange(_, _, _)
FlattenRange(ss, lo, hi) ==
    IF lo > hi THEN <<>>
    ELSE IF lo = hi THEN ss[lo]
    ELSE FlattenRange(ss, lo, (lo + hi) \div 2)
         \o FlattenRange(ss, (lo + hi) \div 2 + 1, hi)

Flatten(ss) == FlattenRange(ss, 1, Len(ss))

\* The text of a string literal of byte pairs ('42 74 57 ...'), given as
\* the bytes it spells.
Hex(bytes) ==
    [i \in 1..(2 * Len(bytes)) |->
        IF i % 2 = 1 THEN bytes[(i + 1) \div 2] \div 16 ELSE bytes[i \div 2] % 16]

\* n.toString(16): the hexadecimal digits of n >= 0, no leading zero.
RECURSIVE toString16(_)
toString16(n) == IF n < 16 THEN <<n>> ELSE toString16(n \div 16) \o <<n % 16>>

\* The groups /.{1,2}/g of a digit string, each through parseInt(byte, 16).
parsePairs(digits) ==
    [i \in 1..((Len(digits) + 1) \div 2) |->
        IF 2 * i <= Len(digits) THEN 16 * digits[2 * i - 1] + digits[2 * i]
        ELSE digits[2 * i - 1]]

\* fromHexString: match returns null for the empty string, and null.map throws.
fromHexString(digits) == IF digits = <<>> THEN Thrown ELSE parsePairs(digits)

\* stringToHex: each code unit through toString(16), joined.
stringToHex(str) == Flatten([i \in 1..Len(str) |-> toString16(str[i])])

\* parts.join(sep)
Join(parts, sep) ==
    Flatten([i \in 1..Len(parts) |-> IF i = 1 THEN parts[i] ELSE sep \o parts[i]])

\* The argument of the tags' length: '00' or tags.join('0').length.toString(16)
tagsLengthHex(tags) ==
    IF Len(tags) = 0 THEN <<0, 0>> ELSE toString16(Len(Join(tags, <<48>>)))

\* this.tags.map((t) => stringToHex(t)).join('20')
tagsHex(tags) == Join([i \in 1..Len(tags) |-> stringToHex(tags[i])], <<2, 0>>)

\* 2^k
RECURSIVE Pow2(_)
Pow2(k) == IF k = 0 THEN 1 ELSE 2 * Pow2(k - 1)

\* The largest e >= 0 with 2^e <= n/d, for n/d >= 1, searched from e.
RECURSIVE ExponentUp(_, _, _)
ExponentUp(n, d, e) == IF n >= d * Pow2(e + 1) THEN ExponentUp(n, d, e + 1) ELSE e

\* The smallest k > 0 with 2^(-k) <= n/d, for 0 < n/d < 1, searched from k.
RECURSIVE ExponentDown(_, _, _)
ExponentDown(n, d, k) == IF n * Pow2(k) >= d THEN k ELSE ExponentDown(n, d, k + 1)

\* The digits of the fraction r/den (0 <= r < den) in the bases `bases`, and
\* what remains: <<digits, remainder>>.
RECURSIVE FractionDigits(_, _, _)
FractionDigits(r, den, bases) ==
    IF bases = <<>> THEN <<<<>>, r>>
    ELSE LET digit == (Head(bases) * r) \div den
             rest == FractionDigits((Head(bases) * r) % den, den, Tail(bases))
         IN  <<<<digit>> \o rest[1], rest[2]>>

\* digits + 1 in the bases `bases`: <<sum, carry out>>.
RECURSIVE Increment(_, _)
Increment(digits, bases) ==
    IF digits = <<>> THEN <<<<>>, 1>>
    ELSE LET last == Len(digits)
             init == SubSeq(digits, 1, last - 1)
         IN  IF digits[last] + 1 < bases[last] THEN <<init \o <<digits[last] + 1>>, 0>>
             ELSE LET up == Increment(init, SubSeq(bases, 1, last - 1))
                  IN  <<up[1] \o <<0>>, up[2]>>

\* The 52 bits of a double's fraction as a 4-bit digit and six bytes.
FractionBases == <<16, 256, 256, 256, 256, 256, 256>>

\* The 8 bytes, big-endian, of the IEEE-754 double nearest to v (round to
\* nearest, ties to even): sign, 11 bits of biased exponent, 52 bits of
\* fraction.  The values of the model are in the normal range.
Float64BE(v) ==
    CASE v.t = "nan" -> <<127, 248, 0, 0, 0, 0, 0, 0>>
      [] v.t = "pinf" -> <<127, 240, 0, 0, 0, 0, 0, 0>>
      [] v.t = "ninf" -> <<255, 240, 0, 0, 0, 0, 0, 0>>
      [] v.t = "fin" /\ v.n = 0 -> <<0, 0, 0, 0, 0, 0, 0, 0>>
      [] OTHER ->
           LET absN == Abs(v.n)
               exp2 == IF absN >= v.d THEN ExponentUp(absN, v.d, 0)
                       ELSE -ExponentDown(absN, v.d, 1)
               numer == IF exp2 >= 0 THEN absN ELSE absN * Pow2(-exp2)
               denom == IF exp2 >= 0 THEN v.d * Pow2(exp2) ELSE v.d
               fd == FractionDigits(numer - denom, denom, FractionBases)
               roundUp == 2 * fd[2] > denom \/ (2 * fd[2] = denom /\ fd[1][7] % 2 = 1)
               inc == Increment(fd[1], FractionBases)
               mant == IF roundUp THEN inc[1] ELSE fd[1]
               biased == (IF roundUp /\ inc[2] = 1 THEN exp2 + 1 ELSE exp2) + 1023
           IN  <<(IF v.n < 0 THEN 128 ELSE 0) + biased \div 16,
                 (biased % 16) * 16 + mant[1]>> \o SubSeq(mant, 2, 7)

\* dataView.setFloat64(byteOffset, v, false) on the bytes buf
setFloat64(buf, byteOffset, v) ==
    LET f64 == Float64BE(v)
    IN  [i \in 1..Len(buf) |->
            IF i > byteOffset /\ i <= byteOffset + 8 THEN f64[i - byteOffset] ELSE buf[i]]

\* new Uint8Array(n)
Zeros(n) == [i \in 1..n |-> 0]

\* The record of one point with x written first: setFloat64(8, x) and
\* setFloat64(21, y).
pointStructureXFirst(p) ==
    LET structure ==
            fromHexString(Hex(<<\H00, \H12, \H7E, \H00, \H00, \H35, \HFD, \H07>>))
            \o Zeros(8)
            \o fromHexString(Hex(<<\H00, \H00, \H35, \HFE, \H07>>))
            \o Zeros(8)
            \o fromHexString(Hex(<<\H00, \H00, \H35, \HFF, \H07>>))
            \o Zeros(8)
            \o fromHexString(Hex(<<\H00, \H00, \H00, \H00, \H00>>))
    IN  setFloat64(setFloat64(setFloat64(structure, 8, p.x), 21, p.y), 34, p.slope)

\* The record of one point: `structure` after the three setFloat64.
pointStructure(p) ==
    LET structure ==
            fromHexString(Hex(<<\H00, \H12, \H7E, \H00, \H00, \H35, \HFD, \H07>>))
            \o Zeros(8)
            \o fromHexString(Hex(<<\H00, \H00, \H35, \HFE, \H07>>))
            \o Zeros(8)
            \o fromHexString(Hex(<<\H00, \H00, \H35, \HFF, \H07>>))
            \o Zeros(8)
            \o fromHexString(Hex(<<\H00, \H00, \H00, \H00, \H00>>))
    IN  setFloat64(setFloat64(setFloat64(structure, 8, p.y), 21, p.x), 34, p.slope)

\* The records of the points, one after the other.
mergedPoints(pts) == Flatten([i \in 1..Len(pts) |-> pointStructure(pts[i])])

spacer == fromHexString(Hex(<<\H00, \H00, \H00>>))

stop == fromHexString(Hex(<<\H00>>))

\* The elements spread into the array toBuffer returns, in order, for the
\* metadata m and the points pts.
bufferParts(m, pts) ==
    <<
        fromHexString(Hex(<<\H42, \H74, \H57, \H67, \H30, \H30, \H30, \H33,
            \H30, \H30, \H30, \H32, \H30, \H30, \H30, \H30, \H30, \H30, \H30,
            \H30, \H31, \H35, \H30, \H65, \H30, \H30, \H30, \H30, \H30, \H30,
            \H30, \H30, \H30, \H30, \H30, \H30, \H30, \H30, \H30, \H30, \H30,
            \H30>>)),
        spacer,
        fromHexString(Hex(<<\H04>>)),
        spacer,
        fromHexString(Hex(<<\H04, \H6D, \H65, \H74, \H61>>)),
        spacer,
        fromHexString(Hex(<<\H01>>)),
        spacer,
        fromHexString(Hex(<<\H18, \H61, \H70, \H70, \H6C, \H69, \H63, \H61,
            \H74, \H69, \H6F, \H6E, \H5F, \H76, \H65, \H72, \H73, \H69, \H6F,
            \H6E, \H5F, \H6E, \H61, \H6D, \H65, \H08>>)),
        spacer,
        fromHexString(Hex(<<\H05, \H35, \H2E, \H32, \H2E, \H32>>)),
        spacer,
        fromHexString(Hex(<<\H01>>)),
        spacer,
        fromHexString(Hex(<<\H06, \H62, \H72, \H61, \H6E, \H63, \H68, \H08>>)),
        spacer,
        fromHexString(Hex(<<\H08, \H72, \H65, \H6C, \H65, \H61, \H73, \H65,
            \H73>>)),
        spacer,
        fromHexString(Hex(<<\H01>>)),
        spacer,
        fromHexString(Hex(<<\H07, \H63, \H6F, \H6D, \H6D, \H65, \H6E, \H74>>)),
        fromHexString(Hex(<<\H08>>)),
        spacer,
        fromHexString(toString16(Len(m.description))),
        fromHexString(stringToHex(m.description)),
        spacer,
        fromHexString(Hex(<<\H01>>)),
        spacer,
        fromHexString(Hex(<<\H07, \H63, \H72, \H65, \H61, \H74, \H6F, \H72,
            \H08>>)),
        spacer,
        fromHexString(toString16(Len(m.creator))),
        fromHexString(stringToHex(m.creator)),
        spacer,
        fromHexString(Hex(<<\H01>>)),
        spacer,
        fromHexString(Hex(<<\H0E>>)),
        fromHexString(Hex(<<\H63, \H75, \H72, \H76, \H65, \H5F, \H63, \H61,
            \H74, \H65, \H67, \H6F, \H72, \H79, \H08>>)),
        spacer,
        fromHexString(toString16(Len(m.category))),
        fromHexString(stringToHex(m.category)),
        spacer,
        fromHexString(Hex(<<\H01>>)),
        spacer,
        fromHexString(Hex(<<\H0A>>)),
        fromHexString(Hex(<<\H63, \H75, \H72, \H76, \H65, \H5F, \H6B, \H69,
            \H6E, \H64, \H01, \H02>>)),
        spacer,
        fromHexString(Hex(<<\H01>>)),
        spacer,
        fromHexString(Hex(<<\H0B, \H72, \H65, \H76, \H69, \H73, \H69, \H6F,
            \H6E, \H5F, \H69, \H64, \H08>>)),
        spacer,
        fromHexString(Hex(<<\H28, \H31, \H64, \H39, \H35, \H34, \H37, \H37,
            \H33, \H36, \H65, \H34, \H32, \H35, \H37, \H64, \H36, \H61, \H61,
            \H37, \H64, \H33, \H34, \H66, \H39, \H66, \H64, \H64, \H39, \H62,
            \H38, \H63, \H34, \H66, \H39, \H39, \H38, \H34, \H61, \H36,
            \H30>>)),
        spacer,
        fromHexString(Hex(<<\H01>>)),
        spacer,
        fromHexString(Hex(<<\H0B, \H72, \H65, \H76, \H69, \H73, \H69, \H6F,
            \H6E, \H5F, \H6E, \H6F, \H03, \H00, \H02, \H45, \HA0>>)),
        spacer,
        fromHexString(Hex(<<\H01>>)),
        spacer,
        fromHexString(Hex(<<\H04, \H74, \H61, \H67, \H73, \H08>>)),
        spacer,
        fromHexString(tagsLengthHex(m.tags)),
        fromHexString(tagsHex(m.tags)),
        spacer,
        fromHexString(Hex(<<\H01>>)),
        spacer,
        fromHexString(Hex(<<\H04, \H74, \H79, \H70, \H65, \H08>>)),
        spacer,
        fromHexString(Hex(<<\H18, \H61, \H70, \H70, \H6C, \H69, \H63, \H61,
            \H74, \H69, \H6F, \H6E, \H2F, \H62, \H69, \H74, \H77, \H69, \H67,
            \H2D, \H63, \H75, \H72, \H76, \H65>>)),
        spacer,
        fromHexString(Hex(<<\H00>>)),
        fromHexString(Hex(<<\H20, \H20, \H20, \H20, \H20, \H20, \H20, \H20,
            \H20, \H20, \H20, \H20, \H20, \H20, \H20, \H20, \H0A>>)),
        fromHexString(Hex(<<\H00>>)),
        fromHexString(Hex(<<\H00, \H12, \H7F, \H00, \H00, \H36, \H2D, \H01,
            \H02, \H00, \H00, \H36, \H46, \H05, \H01, \H00, \H00, \H36, \H01,
            \H01, \H20, \H00, \H00, \H36, \H02, \H01, \H01, \H00, \H00, \H36,
            \H35, \H01, \H00, \H00, \H00, \H36, \H03, \H12, \H00>>)),
        mergedPoints(pts),
        fromHexString(Hex(<<\H00, \H00, \H03, \H00, \H00, \H37, \H88, \H01,
            \HFF, \H00, \H00, \H36, \H65, \H01, \HFF, \H00, \H00, \H36, \H66,
            \H01, \HFF, \H00>>)),
        fromHexString(Hex(<<\H00, \H36, \H0B, \H08>>)),
        spacer,
        fromHexString(toString16(Len(m.name))),
        fromHexString(stringToHex(m.name)),
        stop,
        fromHexString(Hex(<<\H00, \H36, \H21, \H08>>)),
        spacer,
        fromHexString(toString16(Len(m.creator))),
        fromHexString(stringToHex(m.creator)),
        stop,
        fromHexString(Hex(<<\H00, \H36, \H23, \H08>>)),
        spacer,
        fromHexString(toString16(Len(m.description))),
        fromHexString(stringToHex(m.description)),
        stop,
        fromHexString(Hex(<<\H00, \H36, \H22, \H08>>)),
        spacer,
        fromHexString(toString16(Len(m.category))),
        fromHexString(stringToHex(m.category)),
        stop,
        fromHexString(Hex(<<\H00, \H36, \HA6, \H08>>)),
        spacer,
        fromHexString(tagsLengthHex(m.tags)),
        fromHexString(tagsHex(m.tags)),
        stop,
        spacer
    >>

\* Where the variable fields are in bufferParts: the length and the content
\* of description, creator, category and tags in the metadata block, the
\* point records, and name, creator, description, category and tags in
\* the trailer.
PartTagsLength == 61

PartTagsContent == 62

PartPoints == 74

PartTrailerTagsLength == 98

PartTrailerTagsContent == 99

\* Where name, creator and description are in bufferParts: the part that
\* holds the length of each; its content is the part after it.
TextFields ==
    {[field |-> "description", length |-> 24],
     [field |-> "creator", length |-> 31],
     [field |-> "name", length |-> 78],
     [field |-> "creator", length |-> 83],
     [field |-> "description", length |-> 88]}

\* setName, setCreator: 'must be at most 256 characters long'
MaxTextLength == 256

\* Uint8Array.from([...]) of the spread elements: building the array throws
\* when a fromHexString threw.
Spread(parts) ==
    IF \E i \in 1..Len(parts) : parts[i] = Thrown THEN Thrown ELSE Flatten(parts)

\* toBuffer() of document d: the bytes, or the TypeError.
toBuffer(h, d) ==
    LET array == Spread(bufferParts(Metadata(h, d), Points(h, d)))
    IN  IF array = Thrown
        THEN [kind |-> "TypeError", bytes |-> <<>>, doc |-> <<>>]
        ELSE [kind |-> "return", bytes |-> array, doc |-> <<>>]

\* toBuffer that reverses this.points in place while it encodes.
toBufferHeapReversing(h, d) ==
    [h EXCEPT !.ha = [h.ha EXCEPT ![h.dp[d]] = ReverseSeq(@)]]

\* The heap toBuffer() leaves: it reads this.points and this.metadata (map
\* and merge build new arrays) and writes neither.
toBufferHeap(h, d) == h

\* BWCurve.fromBuffer(buffer): throw new Error('Not implemented (yet)')
fromBuffer(buffer) == [kind |-> "Error", bytes |-> <<>>, doc |-> <<>>]

-----------------------------------------------------------------------------
(* Calls *)

\* The longest sequence of calls explored.
MaxCalls == 2

\* The longest point list a caller passes to setPoints.
MaxPts == 2

CanCall == Len(hist) < MaxCalls

\* The points callers pass in.
PointVals == {P(0, 0, 0), P(1, 1, 0), P(1, 2, -2), P(2, -1, 2)}

SeqsUpTo(S, n) == UNION {[1..k -> S] : k \in 0..n}

\* The curves passed as an argument of spliceCurve.
ArgCurves == {<<>>, <<P(0, 0, 0), P(1, 1, 0)>>}

\* The (min, max) passed to fitInXRange and fitInYRange.
FitRanges == {<<Num(0), Num(1)>>, <<Num(1), Num(3)>>}

\* The indexes passed to removePoint for a list of n points: one before the
\* start counted from the end, the last one counted from the end, the first
\* one, and the first one past the end.
IndexVals(n) == {-(n + 1), -1, 0, n}

\* The point a caller pushes, the slope a map callback writes, the tag and
\* the name a caller sets ('x', 'n').
PushedPoint == P(3, 1, 0)

WrittenSlope == Num(1)

TagX == <<120>>

NameN == <<110>>

\* The tag lists a caller sets: none, ['default'], ['a', 'b'], ['a b'].
TagLists == {<<>>, <<StrDefault>>, <<<<97>>, <<98>>>>, <<<<97, 32, 98>>>>}

\* The names a caller sets: '', 'default', a tab and 'a', and 'a' 256 times.
Names == {<<>>, StrDefault, <<9, 97>>, [i \in 1..MaxTextLength |-> 97]}

\* The points a caller inserts with insertPointAtX: one at an x a pushed or
\* built point already has, one before every other point.
InsertedPoints == {P(1, 0, 1), P(-1, 0, 0)}

Clamp(d) ==
    /\ CanCall
    /\ Finish("clamp", d, <<>>, clamp(Heap, d), RetThis)

Reverse(d) ==
    /\ CanCall
    /\ Finish("reverse", d, <<>>, reverse(Heap, d), RetThis)

FitInXRange(d) ==
    /\ CanCall
    /\ \E range \in FitRanges :
          Finish("fitInXRange", d, range,
                 fitInXRange(Heap, d, range[1], range[2]), RetThis)

FitInYRange(d) ==
    /\ CanCall
    /\ \E range \in FitRanges :
          Finish("fitInYRange", d, range,
                 fitInYRange(Heap, d, range[1], range[2]), RetThis)

SpliceCurve(d, c) ==
    /\ CanCall
    /\ Finish("spliceCurve", d, <<c>>, spliceCurve(Heap, d, c), RetThis)

RemovePoint(d) ==
    /\ CanCall
    /\ \E index \in IndexVals(pointCount(Heap, d)) :
          Finish("removePoint", d, <<index>>, removePoint(Heap, d, index), RetThis)

Invert(d) ==
    /\ CanCall
    /\ Finish("invert", d, <<>>, invert(Heap, d), RetThis)

PushPoints(d) ==
    /\ CanCall
    /\ Finish("pushPoints", d, <<PushedPoint>>,
              pushPoints(Heap, d, <<PushedPoint>>), RetThis)

Sort(d) ==
    /\ CanCall
    /\ \E order \in sortOrders(Heap, Refs(Heap, d)) :
          Finish("sort", d, <<>>, sort(Heap, d, order), RetThis)

Map(d) ==
    /\ CanCall
    /\ \/ Finish("map", d, <<"write">>, mapWriting(Heap, d, WrittenSlope), RetThis)
       \/ Finish("map", d, <<"spread">>,
                 mapSpread(Heap, d, [i \in 1..Len(Refs(Heap, d)) |->
                                       [Points(Heap, d)[i] EXCEPT !.slope = WrittenSlope]]),
                 RetThis)

AddTag(d) ==
    /\ CanCall
    /\ Finish("addTag", d, <<TagX>>, addTag(Heap, d, TagX), RetThis)

SetName(d) ==
    /\ CanCall
    /\ Finish("setName", d, <<NameN>>, setName(Heap, d, NameN), RetThis)

InsertPointAtX(d) ==
    /\ CanCall
    /\ \E p \in InsertedPoints :
          Finish("insertPointAtX", d, <<p>>, insertPointAtX(Heap, d, p), RetThis)

MapForward(d) ==
    /\ CanCall
    /\ Finish("map", d, <<"forward">>, mapForward(Heap, d), RetThis)

FilterForward(d) ==
    /\ CanCall
    /\ Finish("filter", d, <<"forward">>, filterForward(Heap, d), RetThis)

Double(d) ==
    /\ CanCall
    /\ Finish("double", d, <<>>, double(Heap, d), RetThis)

Mirror(d) ==
    /\ CanCall
    /\ Finish("mirror", d, <<>>, mirror(Heap, d), RetThis)

\* c = d.clone()
Clone(d, c) ==
    /\ CanCall
    /\ Finish("clone", d, <<c>>, clone(Heap, d, c),
              [kind |-> "return", bytes |-> <<>>, doc |-> ViewOf(clone(Heap, d, c), c)])

ToBuffer(d) ==
    /\ CanCall
    /\ Finish("toBuffer", d, <<>>, toBufferHeap(Heap, d), toBuffer(Heap, d))

\* BWCurve.fromBuffer(buffer) for the buffer the last call, a toBuffer(),
\* returned.
FromBuffer ==
    /\ CanCall
    /\ Len(hist) > 0
    /\ hist[Len(hist)].op = "toBuffer"
    /\ hist[Len(hist)].ret.kind = "return"
    /\ Finish("fromBuffer", hist[Len(hist)].doc, <<hist[Len(hist)].ret.bytes>>,
              Heap, fromBuffer(hist[Len(hist)].ret.bytes))

\* The state after  a = new BWCurve().setPoints(pa, (p) => p)  and the same
\* for b with pb.
Built(pa, pb) == Collect(setPoints(setPoints(Constructed, "a", pa), "b", pb))

InitWith(h) ==
    /\ docPoints = h.dp
    /\ heapArr = h.ha
    /\ heapObj = h.ho
    /\ docMeta = h.dm
    /\ heapMeta = h.hm
    /\ hist = <<>>

\* The point pipeline on document a, with b as the argument of spliceCurve.
Init ==
    \E pa \in SeqsUpTo(PointVals, MaxPts), pb \in ArgCurves : InitWith(Built(pa, pb))

Next ==
    \/ Clamp("a")
    \/ Reverse("a")
    \/ FitInXRange("a")
    \/ FitInYRange("a")
    \/ SpliceCurve("a", "b")
    \/ RemovePoint("a")

Spec == Init /\ [][Next]_vars

\* The codec: document a after setPoints, setTags and setName, then
\* toBuffer and fromBuffer.
InitCodec ==
    \E pa \in SeqsUpTo(PointVals, MaxPts), tags \in TagLists, name \in Names :
        InitWith(setName(setTags(Built(pa, <<>>), "a", tags), "a", name))

NextCodec ==
    \/ ToBuffer("a")
    \/ FromBuffer

SpecCodec == InitCodec /\ [][NextCodec]_vars

\* Two documents and clone: every call is made on either document.
InitAlias ==
    \E pa \in ArgCurves \cup {<<P(2, -1, 2), P(1, 2, -2)>>} : InitWith(Built(pa, <<>>))

NextAlias ==
    \E d \in Docs :
        \/ Clone(d, Other(d))
        \/ Invert(d)
        \/ PushPoints(d)
        \/ RemovePoint(d)
        \/ Sort(d)
        \/ Map(d)
        \/ AddTag(d)
        \/ SetName(d)

SpecAlias == InitAlias /\ [][NextAlias]_vars

\* The repetitions double and mirror on document a.
NextShape ==
    \/ Double("a")
    \/ Mirror("a")

SpecShape == Init /\ [][NextShape]_vars

\* Two documents spliced into one another, and the calls that change a
\* point list in place, made on either document.
InitSplice ==
    \E pa \in ArgCurves \cup {<<P(2, -1, 2), P(1, 2, -2)>>}, pb \in ArgCurves :
        InitWith(Built(pa, pb))

NextSplice ==
    \E d \in Docs :
        \/ SpliceCurve(d, Other(d))
        \/ PushPoints(d)
        \/ InsertPointAtX(d)
        \/ RemovePoint(d)
        \/ Sort(d)
        \/ Invert(d)

SpecSplice == InitSplice /\ [][NextSplice]_vars

\* map and filter on document a with a callback that writes into the array
\* it is given.
NextCallback ==
    \/ MapForward("a")
    \/ FilterForward("a")

SpecCallback == Init /\ [][NextCallback]_vars

-----------------------------------------------------------------------------
(* Properties *)

Called == Len(hist) > 0

\* The last call and the one before it.
Last == hist[Len(hist)]

Prev == hist[Len(hist) - 1]

\* The points of document a now, and before the last call.
PointsNow == Points(Heap, "a")

PointsBefore == Last.pre["a"].points

InUnit(v) == Le(Num(0), v) /\ Le(v, Num(1))

InSlopeRange(v) == Le(Num(-1), v) /\ Le(v, Num(1))

IsInteger(v) == IsFinite(v) /\ v.d = 1

\* C1: for a document with at least one point, fromBuffer of the bytes
\* toBuffer returned gives back a document with the same name, creator,
\* description, category, tags and points.
RoundTrip ==
    (/\ Len(hist) >= 2
     /\ Last.op = "fromBuffer"
     /\ Prev.op = "toBuffer"
     /\ Len(Prev.pre[Prev.doc].points) >= 1)
    => /\ Last.ret.kind = "return"
       /\ Last.ret.doc = Prev.pre[Prev.doc]

\* C2: toBuffer on a document with no tags returns, and the tags field of
\* the metadata block and of the trailer is one zero length byte and no
\* content byte.
EmptyTagsEncode ==
    (/\ Called
     /\ Last.op = "toBuffer"
     /\ Last.pre[Last.doc].metadata.tags = <<>>)
    => /\ Last.ret.kind = "return"
       /\ LET fields == bufferParts(Last.pre[Last.doc].metadata,
                                   Last.pre[Last.doc].points)
          IN  /\ fields[PartTagsLength] = <<0>>
              /\ fields[PartTagsContent] = <<>>
              /\ fields[PartTrailerTagsLength] = <<0>>
              /\ fields[PartTrailerTagsContent] = <<>>

CloneIndependent ==
    Called =>
       /\ Last.op = "clone"
             => /\ ViewOf(Heap, Last.args[1]) = Last.pre[Last.doc]
                /\ ViewOf(Heap, Last.doc) = Last.pre[Last.doc]
                /\ Last.ret.doc = Last.pre[Last.doc]
       /\ (Last.op # "clone" /\ \E i \in 1..(Len(hist) - 1) : hist[i].op = "clone")
             => ViewOf(Heap, Other(Last.doc)) = Last.pre[Other(Last.doc)]

\* C4, its case: b = a.clone() of a document with points, then a call that
\* changed the clone.
CloneThenChanged ==
    /\ Len(hist) >= 2
    /\ Prev.op = "clone" /\ Prev.doc = "a"
    /\ Last.op = "invert" /\ Last.doc = "b"
    /\ Len(PointsNow) >= 2
    /\ Points(Heap, "b") # PointsNow

\* The example of spliceCurve: receiver and argument.
SpliceExampleCurve == <<P(0, 0, 0), P(1, 1, 0)>>

SplicedExample ==
    /\ Called
    /\ Last.op = "spliceCurve"
    /\ PointsBefore = SpliceExampleCurve
    /\ Last.pre["b"].points = SpliceExampleCurve

\* C5 as stated: spliceCurve of [(0,0,0),(1,1,0)] with [(0,0,0),(1,1,0)]
\* leaves the receiver with [(0,0,0),(1,1,0),(2,0,0),(3,1,0)].
SpliceExampleAsStated ==
    SplicedExample => PointsNow = <<P(0, 0, 0), P(1, 1, 0), P(2, 0, 0), P(3, 1, 0)>>

\* C5: spliceCurve of [(0,0,0),(1,1,0)] with [(0,0,0),(1,1,0)] leaves the
\* receiver with [(0,0,0),(1,1,0),(1,0,0),(2,1,0)]: the argument's points
\* follow, each x offset by the receiver's largest x, 1.
SpliceExample ==
    SplicedExample => PointsNow = <<P(0, 0, 0), P(1, 1, 0), P(1, 0, 0), P(2, 1, 0)>>

\* reverse() was called twice in a row on a document with points.
ReversedTwice ==
    /\ Len(hist) >= 2
    /\ Last.op = "reverse" /\ Prev.op = "reverse"
    /\ Prev.pre["a"].points # <<>>

\* C6 as stated: reverse() twice gives every non-empty document its
\* original points back, in the original order.
ReverseSelfInverse == ReversedTwice => PointsNow = Prev.pre["a"].points

\* C6: reverse() twice on a non-empty document whose x are integers gives
\* the original order, y and slope back, and each x less the smallest x of
\* the document: the original points when the smallest x is 0.
ReverseTwiceShifted ==
    (ReversedTwice /\ \A i \in 1..Len(Prev.pre["a"].points) :
                         IsInteger(Prev.pre["a"].points[i].x))
    => LET before == Prev.pre["a"].points
           minX == MathMin(Xs(before))
       IN  /\ PointsNow = [i \in 1..Len(before) |->
                             [before[i] EXCEPT !.x = Sub(@, minX)]]
           /\ minX = Num(0) => PointsNow = before

\* C6, its case: reverse() twice on [(0,0,0),(1,1,0)].
ReversedExampleTwice ==
    ReversedTwice /\ Prev.pre["a"].points = <<P(0, 0, 0), P(1, 1, 0)>>

\* C7: after clamp() every point has 0 <= y <= 1 and -1 <= slope <= 1, the
\* x, the order and the count of the points are as before, and a second
\* clamp() right after changes nothing.
ClampPostcondition ==
    (Called /\ Last.op = "clamp")
    => /\ \A i \in 1..Len(PointsNow) :
             InUnit(PointsNow[i].y) /\ InSlopeRange(PointsNow[i].slope)
       /\ Xs(PointsNow) = Xs(PointsBefore)
       /\ (Len(hist) >= 2 /\ Prev.op = "clamp") => PointsNow = PointsBefore

\* removePoint was called with a negative index or one at or past
\* pointCount.
RemovedOutOfRange ==
    /\ Called
    /\ Last.op = "removePoint"
    /\ (Last.args[1] < 0 \/ Last.args[1] >= Len(PointsBefore))

\* C8 as stated: removePoint with a negative index or one at or past
\* pointCount returns and leaves the points as they were.
RemoveOutOfRangeNoOp ==
    RemovedOutOfRange => (Last.ret.kind = "this" /\ PointsNow = PointsBefore)

\* The sequence s without its element at position k.
Without(s, k) == [i \in 1..(Len(s) - 1) |-> IF i < k THEN s[i] ELSE s[i + 1]]

\* C8: removePoint raises no error for any index; with an index at or past
\* pointCount it leaves the points as they were; with a negative index on
\* a document with points it removes one point, the one at pointCount +
\* index, or the first when index < -pointCount.
RemoveOutOfRangeSplice ==
    RemovedOutOfRange
    => /\ Last.ret.kind = "this"
       /\ Last.args[1] >= Len(PointsBefore) => PointsNow = PointsBefore
       /\ (Last.args[1] < 0 /\ PointsBefore = <<>>) => PointsNow = <<>>
       /\ (Last.args[1] < 0 /\ PointsBefore # <<>>)
             => PointsNow =
                   Without(PointsBefore,
                           IF Len(PointsBefore) + Last.args[1] < 0 THEN 1
                           ELSE Len(PointsBefore) + Last.args[1] + 1)

\* C8, its case: removePoint(-1) on a document with two points, which
\* leaves the first.
RemovedLastFromEnd ==
    /\ RemovedOutOfRange
    /\ Last.args[1] = -1
    /\ Len(PointsBefore) = 2
    /\ PointsNow = <<PointsBefore[1]>>

\* fitInXRange or fitInYRange was called on a document with no points.
FittedEmpty ==
    /\ Called
    /\ Last.op \in {"fitInXRange", "fitInYRange"}
    /\ PointsBefore = <<>>

\* C9 as stated: a range fit on a document with no points fails with an
\* EmptyCurveError.
EmptyCurveError == FittedEmpty => Last.ret.kind = "EmptyCurveError"

\* C9: a range fit on a document with no points returns the document and
\* leaves it with no points; the scans of a document with no points give
\* Infinity for the minima and -Infinity for the maxima.
EmptyFitReturns ==
    FittedEmpty
    => /\ Last.ret.kind = "this"
       /\ PointsNow = <<>>
       /\ getMinX(Heap, "a") = PInf /\ getMaxX(Heap, "a") = NInf
       /\ getMinY(Heap, "a") = PInf /\ getMaxY(Heap, "a") = NInf

\* C9, its case: fitInYRange(1, 3) was called on a document with no points.
FittedEmptyY ==
    FittedEmpty /\ Last.op = "fitInYRange" /\ Last.args = <<Num(1), Num(3)>>

\* C10: after fitInXRange(min, max) on a document with two distinct x the
\* smallest x is min and the largest is max; likewise for y after
\* fitInYRange(min, max).
FitReachesMinMax ==
    Called =>
       /\ (/\ Last.op = "fitInXRange"
           /\ \A i \in 1..Len(PointsBefore) : IsFinite(PointsBefore[i].x)
           /\ \E i, j \in 1..Len(PointsBefore) : PointsBefore[i].x # PointsBefore[j].x)
             => /\ getMinX(Heap, "a") = Last.args[1]
                /\ getMaxX(Heap, "a") = Last.args[2]
       /\ (/\ Last.op = "fitInYRange"
           /\ \A i \in 1..Len(PointsBefore) : IsFinite(PointsBefore[i].y)
           /\ \E i, j \in 1..Len(PointsBefore) : PointsBefore[i].y # PointsBefore[j].y)
             => /\ getMinY(Heap, "a") = Last.args[1]
                /\ getMaxY(Heap, "a") = Last.args[2]

\* toBuffer() was called on a document with tags whose name, creator and
\* description are 7-bit ASCII of at most 256 characters.
IsAscii(str) == \A i \in 1..Len(str) : str[i] \in 0..127

EncodedAsciiText ==
    /\ Called
    /\ Last.op = "toBuffer"
    /\ Last.pre[Last.doc].metadata.tags # <<>>
    /\ \A f \in {"name", "creator", "description"} :
          /\ IsAscii(Last.pre[Last.doc].metadata[f])
          /\ Len(Last.pre[Last.doc].metadata[f]) <= MaxTextLength

\* C11: for name, creator and description of 7-bit ASCII and at most 256
\* characters, the empty string included, toBuffer returns, and wherever
\* the field is written there is one length byte holding the number of
\* characters, followed by that many content bytes.
TextFieldsLengthPrefixed ==
    EncodedAsciiText
    => /\ Last.ret.kind = "return"
       /\ LET fields == bufferParts(Last.pre[Last.doc].metadata,
                                    Last.pre[Last.doc].points)
          IN  \A tf \in TextFields :
                 /\ fields[tf.length] = <<Len(Last.pre[Last.doc].metadata[tf.field])>>
                 /\ Len(fields[tf.length + 1]) = Len(Last.pre[Last.doc].metadata[tf.field])

\* toBuffer() returned a buffer.
EncodedBuffer == Called /\ Last.op = "toBuffer" /\ Last.ret.kind = "return"

\* The parts of the buffer the last call, a toBuffer(), built.
LastParts == bufferParts(Last.pre[Last.doc].metadata, Last.pre[Last.doc].points)

\* The bytes of the returned buffer between the prefix of the points block
\* and its terminator.
PointsBlock ==
    LET fields == LastParts
    IN  SubSeq(Last.ret.bytes,
               Len(Flatten(SubSeq(fields, 1, PartPoints - 1))) + 1,
               Len(Last.ret.bytes)
                  - Len(Flatten(SubSeq(fields, PartPoints + 1, Len(fields)))))

\* C12 as stated: the points block is one record of 7+8+5+8+5+8+5 bytes for
\* every point.
PointRecordsSevenByteTag ==
    EncodedBuffer
    => Len(PointsBlock) = (7 + 8 + 5 + 8 + 5 + 8 + 5) * Len(Last.pre[Last.doc].points)

\* The record at position i of a points block of records of 47 bytes.
PointRecord(block, i) == SubSeq(block, 47 * (i - 1) + 1, 47 * i)

\* The bytes of a record are the tags and the doubles of the point p.
IsRecordOf(rec, p) ==
    /\ SubSeq(rec, 1, 8) = <<0, 18, 126, 0, 0, 53, 253, 7>>
    /\ SubSeq(rec, 9, 16) = Float64BE(p.y)
    /\ SubSeq(rec, 17, 21) = <<0, 0, 53, 254, 7>>
    /\ SubSeq(rec, 22, 29) = Float64BE(p.x)
    /\ SubSeq(rec, 30, 34) = <<0, 0, 53, 255, 7>>
    /\ SubSeq(rec, 35, 42) = Float64BE(p.slope)
    /\ SubSeq(rec, 43, 47) = <<0, 0, 0, 0, 0>>

\* C12: the points block is one record for every point, in point order and
\* with nothing between the records; a record is the eight-byte tag
\* 00 12 7E 00 00 35 FD 07, 8 bytes for y, the five-byte tag 00 00 35 FE 07,
\* 8 bytes for x, the five-byte tag 00 00 35 FF 07, 8 bytes for slope and
\* five zero bytes: 47 bytes for every point, none for a document with no
\* points.
PointRecordsLayout ==
    EncodedBuffer
    => LET written == PointsBlock
           encoded == Last.pre[Last.doc].points
       IN  /\ Len(written) = 47 * Len(encoded)
           /\ \A i \in 1..Len(encoded) :
                 IsRecordOf(PointRecord(written, i), encoded[i])

\* C12, its case: a document with two different points was encoded.
EncodedTwoPoints ==
    /\ EncodedBuffer
    /\ Len(Last.pre[Last.doc].points) = 2
    /\ Last.pre[Last.doc].points[1] = P(1, 2, -2)
    /\ Last.pre[Last.doc].points[2] = P(2, -1, 2)

\* a.spliceCurve(b) was called.
Spliced == Called /\ Last.op = "spliceCurve" /\ Last.doc = "a" /\ Last.args = <<"b">>

\* C13: after a.spliceCurve(b), b has the points it had; a has the points
\* it had when b has none, the points of b when a had none, and otherwise
\* the points it had followed by the points of b, in order, each x
\* increased by the largest x a had.
SpliceReference ==
    Spliced
    => LET mine == PointsBefore
           theirs == Last.pre["b"].points
       IN  /\ Points(Heap, "b") = theirs
           /\ theirs = <<>> => PointsNow = mine
           /\ (theirs # <<>> /\ mine = <<>>) => PointsNow = theirs
           /\ (theirs # <<>> /\ mine # <<>>)
                 => PointsNow = mine \o [i \in 1..Len(theirs) |->
                                           [theirs[i] EXCEPT !.x = Add(@, MathMax(Xs(mine)))]]

\* p with its x halved.
HalfX(p) == [p EXCEPT !.x = Mul(Rat(1, 2), @)]

\* C14: double() on n >= 2 points whose smallest x is 0 leaves 2n points:
\* point i has half its x, point n+i has that plus half the largest x
\* there was, both with the y and the slope of point i, and the largest x
\* is what it was.
DoubleHalves ==
    (/\ Called
     /\ Last.op = "double"
     /\ Len(PointsBefore) >= 2
     /\ MathMin(Xs(PointsBefore)) = Num(0))
    => LET len == Len(PointsBefore)
           maxX == MathMax(Xs(PointsBefore))
       IN  /\ Len(PointsNow) = 2 * len
           /\ \A i \in 1..len :
                 /\ PointsNow[i] = HalfX(PointsBefore[i])
                 /\ PointsNow[len + i] =
                       [HalfX(PointsBefore[i]) EXCEPT !.x = Add(@, Mul(Rat(1, 2), maxX))]
           /\ getMaxX(Heap, "a") = maxX

\* mirror() was called on a document with two points or more.
Mirrored == Called /\ Last.op = "mirror" /\ Len(PointsBefore) >= 2

Slopes(pts) == [i \in 1..Len(pts) |-> pts[i].slope]

\* C16: after fitInXRange(min, max) on a document with a point the
\* smallest x is 0 and the largest is max - min, and y, slope, order and
\* count of the points are as before; likewise for y after
\* fitInYRange(min, max), with x and slope as before.
FitSpansZeroToWidth ==
    (Called /\ Len(PointsBefore) >= 1)
    => /\ Last.op = "fitInXRange"
             => /\ getMinX(Heap, "a") = Num(0)
                /\ getMaxX(Heap, "a") = Sub(Last.args[2], Last.args[1])
                /\ Ys(PointsNow) = Ys(PointsBefore)
                /\ Slopes(PointsNow) = Slopes(PointsBefore)
       /\ Last.op = "fitInYRange"
             => /\ getMinY(Heap, "a") = Num(0)
                /\ getMaxY(Heap, "a") = Sub(Last.args[2], Last.args[1])
                /\ Xs(PointsNow) = Xs(PointsBefore)
                /\ Slopes(PointsNow) = Slopes(PointsBefore)

\* C17: the content bytes toBuffer writes for a name, creator, description
\* or tag of 7-bit ASCII are its character codes, one byte for each
\* character, the tags separated by one byte 20; so the content is as long
\* as the length byte before it says.
AsciiContentBytes ==
    (/\ EncodedBuffer
     /\ \A f \in {"name", "creator", "description"} :
           /\ IsAscii(Last.pre[Last.doc].metadata[f])
           /\ Len(Last.pre[Last.doc].metadata[f]) < MaxTextLength
     /\ \A i \in 1..Len(Last.pre[Last.doc].metadata.tags) :
           IsAscii(Last.pre[Last.doc].metadata.tags[i]))
    => LET fields == LastParts
           meta == Last.pre[Last.doc].metadata
       IN  /\ \A tf \in TextFields :
                 /\ fields[tf.length + 1] = meta[tf.field]
                 /\ fields[tf.length] = <<Len(fields[tf.length + 1])>>
           /\ \A k \in {PartTagsLength, PartTrailerTagsLength} :
                 /\ fields[k + 1] = Join(meta.tags, <<32>>)
                 /\ fields[k] = <<Len(fields[k + 1])>>

NonDecreasingX(pts) == \A i \in 1..(Len(pts) - 1) : Le(pts[i].x, pts[i + 1].x)

\* The list `pts` with p put in at position k.
InsertedAt(pts, k, p) == SubSeq(pts, 1, k - 1) \o <<p>> \o SubSeq(pts, k, Len(pts))

\* C18: insertPointAtX(p) makes the point list one longer, keeps every
\* point it had in the order they were in, and puts p just before the first
\* point whose x is strictly greater than p.x, so after every point of equal
\* x, or at the end when no x is greater; a list that was non-decreasing in
\* x stays non-decreasing in x.
InsertKeepsOrder ==
    (Called /\ Last.op = "insertPointAtX")
    => LET before == Last.pre[Last.doc].points
           now == Points(Heap, Last.doc)
           inserted == Last.args[1]
       IN  /\ Len(now) = Len(before) + 1
           /\ \E k \in 1..(Len(before) + 1) :
                 /\ now = InsertedAt(before, k, inserted)
                 /\ \A i \in 1..(k - 1) : ~Lt(inserted.x, before[i].x)
                 /\ k <= Len(before) => Lt(inserted.x, before[k].x)
           /\ NonDecreasingX(before) => NonDecreasingX(now)

\* An insertPointAtX of a point that went between a point of the same x and
\* a point of greater x.
InsertedAfterEqual ==
    /\ Called
    /\ Last.op = "insertPointAtX"
    /\ \E k \in 2..(Len(Points(Heap, Last.doc)) - 1) :
          /\ Points(Heap, Last.doc)[k] = Last.args[1]
          /\ Last.pre[Last.doc].points[k - 1].x = Last.args[1].x
          /\ Lt(Last.args[1].x, Points(Heap, Last.doc)[k + 1].x)

\* C20: two documents share no point storage after a spliceCurve: once one
\* of them was spliced into the other, a later pushPoints, insertPointAtX,
\* removePoint, sort or invert on either document leaves the number and the
\* values of the other document's points as they were.
SpliceSharesNoStorage ==
    (/\ Len(hist) >= 2
     /\ \E i \in 1..(Len(hist) - 1) : hist[i].op = "spliceCurve"
     /\ Last.op \in {"pushPoints", "insertPointAtX", "removePoint", "sort", "invert"})
    => Points(Heap, Other(Last.doc)) = Last.pre[Other(Last.doc)].points

\* C19: map and filter hand every call of the callback the points as they
\* were when map or filter was called; what the callback writes into a later
\* point while it handles an earlier one is not seen by the later call.  So
\* a map whose callback returns a copy of the point it was given leaves the
\* points as they were, and a filter whose callback returns point.y >= 0
\* keeps the points that had y >= 0.
CallbackSeesSnapshot ==
    (Called /\ Last.args = <<"forward">>)
    => /\ Last.op = "map" => PointsNow = PointsBefore
       /\ Last.op = "filter"
             => PointsNow = SelectSeq(PointsBefore, LAMBDA q : Le(Num(0), q.y))

====
